---- MODULE Spec2Model ----
(***************************************************************************)
(* A model of src/src/lib.rs (sqids): construction of an instance          *)
(* (Sqids::new), encode / encode_numbers with the padding loop and the     *)
(* blocklist retry, decode with its chunk loop, and the helpers shuffle,   *)
(* to_id, to_number and is_blocked_id.                                     *)
(*                                                                         *)
(* Characters are their Unicode scalar values, strings are sequences of    *)
(* characters.  A u64 is a sequence of 16-bit limbs, the most significant  *)
(* first, so that the arithmetic of to_id and to_number is done at its     *)
(* real width of 64 bits.                                                  *)
(***************************************************************************)
EXTENDS Integers, Sequences, FiniteSets, TLC

VARIABLES
    pc,         \* position of the program
    options,    \* the Options handed to Sqids::new
    sqids,      \* the constructed instance, or NoInstance
    error,      \* the Err the last operation returned, or "None"
    numbers,    \* encode: the argument
    increment,  \* encode_numbers: the argument `increment`
    alphabet,   \* encode_numbers / decode: the local working alphabet
    id,         \* encode_numbers: the local `id`; after encode, its Ok value
    attempts,   \* encode: the candidate ids handed to is_blocked_id so far
    input,      \* decode: the argument
    rest,       \* decode: the local mutable `id` (what is left to read)
    ret         \* decode: the local `ret`

vars == <<pc, options, sqids, error, numbers, increment, alphabet, id,
          attempts, input, rest, ret>>

(***************************************************************************)
(* Bounds of the model.                                                    *)
(***************************************************************************)
MaxAlphabetLen == 4     \* candidate alphabets have 0..MaxAlphabetLen characters
MaxMinLength == 7       \* min_length ranges over 0..MaxMinLength
MaxNum == 2             \* encoded numbers are 0..MaxNum, or all u64::MAX
MaxNumbers == 2         \* encode is called with 0..MaxNumbers numbers
MaxIdLen == 3           \* decode is called with every string of 0..MaxIdLen characters
MaxRunLen == 67         \* and with runs of one character, 1..MaxRunLen long
MaxShuffleLen == 4      \* shuffle alone is applied to 1..MaxShuffleLen characters

(***************************************************************************)
(* Program constants.                                                      *)
(***************************************************************************)
U64_BITS == 64
MIN_ALPHABET_LENGTH == 3

\* 'a', 'b', 'C', '1' and the two-byte 'é'
CharPool == {97, 98, 67, 49, 233}

NoInstance == [alphabet |-> <<>>, min_length |-> 0, blocklist |-> {}]

(***************************************************************************)
(* Sequences.                                                              *)
(***************************************************************************)
SeqsUpTo(S, n) == UNION {[1..k -> S] : k \in 0..n}

Range(s) == {s[k] : k \in 1..Len(s)}

Min(a, b) == IF a < b THEN a ELSE b

\* Iterator::position: the 0-based index of the first c in s, -1 for None
Position(s, c) ==
    IF \E k \in 1..Len(s) : s[k] = c
    THEN (CHOOSE k \in 1..Len(s) : s[k] = c /\ \A m \in 1..(k - 1) : s[m] # c) - 1
    ELSE -1

Reverse(s) == [k \in 1..Len(s) |-> s[Len(s) + 1 - k]]

\* iter().cycle().skip(offset).take(len)
Rotate(s, offset) == [k \in 1..Len(s) |-> s[((offset + k - 1) % Len(s)) + 1]]

\* iter().take(n)
Take(s, n) == SubSeq(s, 1, Min(n, Len(s)))

(***************************************************************************)
(* Characters.                                                             *)
(***************************************************************************)
len_utf8(c) == IF c < 128 THEN 1 ELSE IF c < 2048 THEN 2 ELSE IF c < 65536 THEN 3 ELSE 4

to_ascii_lowercase(c) == IF c >= 65 /\ c <= 90 THEN c + 32 ELSE c

\* char::to_lowercase on ASCII and Latin-1
char_to_lowercase(c) ==
    IF (c >= 65 /\ c <= 90) \/ (c >= 192 /\ c <= 222 /\ c # 215) THEN c + 32 ELSE c

to_lowercase(s) == [k \in 1..Len(s) |-> char_to_lowercase(s[k])]

is_ascii_digit(c) == c >= 48 /\ c <= 57

\* str::len: the length in bytes
ByteLen(s) ==
    IF \A k \in 1..Len(s) : len_utf8(s[k]) = 1 THEN Len(s)
    ELSE Cardinality({kb \in (1..Len(s)) \X (1..4) : kb[2] <= len_utf8(s[kb[1]])})

\* w occurs in s at the 0-based position k
occurs_at(s, w, k) ==
    k >= 0 /\ k + Len(w) <= Len(s) /\ \A m \in 1..Len(w) : s[k + m] = w[m]

starts_with(s, w) == occurs_at(s, w, 0)

ends_with(s, w) == occurs_at(s, w, Len(s) - Len(w))

contains(s, w) == \E k \in 0..(Len(s) - Len(w)) : occurs_at(s, w, k)

\* position i takes the character of position r, which keeps its own
swap_overwrites(s, i, r) == [s EXCEPT ![i + 1] = s[r + 1]]

Swap(s, i, r) == [s EXCEPT ![i + 1] = s[r + 1], ![r + 1] = s[i + 1]]

\* str::split(char): always at least one chunk
RECURSIVE Split(_, _)
Split(s, sep) ==
    LET p == Position(s, sep)
    IN IF p < 0 THEN <<s>>
       ELSE <<SubSeq(s, 1, p)>> \o Split(SubSeq(s, p + 2, Len(s)), sep)

\* [&str]::join(&str) with a one-character separator
RECURSIVE Join(_, _)
Join(chunks, sep) ==
    IF chunks = <<>> THEN <<>>
    ELSE IF Len(chunks) = 1 THEN chunks[1]
    ELSE chunks[1] \o <<sep>> \o Join(Tail(chunks), sep)

(***************************************************************************)
(* u64: Limbs limbs of 16 bits, most significant first.                    *)
(***************************************************************************)
LimbBase == 2 ^ 16

Limbs == U64_BITS \div 16

\* the u64 of a small natural number (n < 2^31)
U64(n) == [k \in 1..Limbs |-> IF k = Limbs THEN n % LimbBase
                               ELSE IF k = Limbs - 1 THEN n \div LimbBase ELSE 0]

U64_MAX == [k \in 1..Limbs |-> LimbBase - 1]

\* one limb times m plus the carry out of the lower limbs: low is that carry
\* followed by the lower limbs of the product
MulAddLimb(limb, m, low) ==
    <<(limb * m + low[1]) \div LimbBase, (limb * m + low[1]) % LimbBase>> \o Tail(low)

\* x * m + carry from limb k down to the least significant one: the carry out
\* of limb k, followed by the limbs k..Limbs of the product
RECURSIVE MulAddLimbs(_, _, _, _)
MulAddLimbs(x, k, m, carry) ==
    IF k > Limbs THEN <<carry>>
    ELSE MulAddLimb(x[k], m, MulAddLimbs(x, k + 1, m, carry))

\* long division of the limbs xs by d with r carried in: the limbs of the
\* quotient, followed by the remainder
RECURSIVE DivLimbs(_, _, _)
DivLimbs(xs, d, r) ==
    IF xs = <<>> THEN <<r>>
    ELSE LET cur == r * LimbBase + Head(xs)
         IN <<cur \div d>> \o DivLimbs(Tail(xs), d, cur % d)

\* x % d on u64
U64Rem(x, d) == DivLimbs(x, d, 0)[Limbs + 1]

(***************************************************************************)
(* Sqids::shuffle                                                          *)
(***************************************************************************)
\* the u32 sum i * j + chars[i] + chars[j] is below 2^32 for every sequence a
\* String can hold characters of (chars are below 2^21)
RECURSIVE shuffle_loop(_, _)
shuffle_loop(chars, i) ==
    IF i >= Len(chars) - 1 THEN chars
    ELSE LET j == Len(chars) - 1 - i
             r == (i * j + chars[i + 1] + chars[j + 1]) % Len(chars)
         IN shuffle_loop(Swap(chars, i, r), i + 1)

shuffle(alpha) == shuffle_loop(alpha, 0)

(***************************************************************************)
(* Sqids::to_id and Sqids::to_number                                       *)
(***************************************************************************)
RECURSIVE to_id_loop(_, _, _)
\* one turn of the loop of lines 229-237; qr is result / len followed by result % len
to_id_digit(qr, alpha, acc) ==
    IF SubSeq(qr, 1, Limbs) = U64(0)
    THEN <<alpha[qr[Limbs + 1] + 1]>> \o acc
    ELSE to_id_loop(SubSeq(qr, 1, Limbs), alpha, <<alpha[qr[Limbs + 1] + 1]>> \o acc)

to_id_loop(result, alpha, acc) == to_id_digit(DivLimbs(result, Len(alpha), 0), alpha, acc)

\* the digits come out least significant first
to_id_reversed(num, alpha) == Reverse(to_id_loop(num, alpha, <<>>))

to_id(num, alpha) == to_id_loop(num, alpha, <<>>)

\* overflow: result * alphabet.len() + idx left the u64 range at some character
\* (the value is then the wrapped one); unwrap_none: position() found no digit
RECURSIVE to_number_loop(_, _, _, _)
to_number_loop(s, i, alpha, acc) ==
    IF i >= Len(s) \/ acc.unwrap_none THEN acc
    ELSE LET idx == Position(alpha, s[i + 1])
             r == MulAddLimbs(acc.value, 1, Len(alpha), idx)
         IN to_number_loop(s, i + 1, alpha,
                IF idx < 0 THEN [acc EXCEPT !.unwrap_none = TRUE]
                ELSE [value |-> Tail(r),
                      overflow |-> acc.overflow \/ r[1] # 0,
                      unwrap_none |-> FALSE])

to_number(s, alpha) ==
    to_number_loop(s, 0, alpha,
                   [value |-> U64(0), overflow |-> FALSE, unwrap_none |-> FALSE])

(***************************************************************************)
(* Sqids::is_blocked_id                                                    *)
(***************************************************************************)
\* one word of the loop of lines 269-283; lid is the lowercased id and n its length
word_blocks(lid, n, word) ==
    LET m == ByteLen(word)
    IN /\ m <= n
       /\ IF n <= 3 \/ m <= 3
          THEN lid = word
          ELSE IF \E k \in 1..Len(word) : is_ascii_digit(word[k])
          THEN starts_with(lid, word) \/ ends_with(lid, word)
          ELSE contains(lid, word)

is_blocked_id(blocklist, s) ==
    LET lid == to_lowercase(s)
        n == ByteLen(lid)
    IN \E word \in blocklist : word_blocks(lid, n, word)

(***************************************************************************)
(* Sqids::new                                                              *)
(***************************************************************************)
filtered_blocklist(blocklist, alpha) ==
    LET lowercase_alphabet == [k \in 1..Len(alpha) |-> to_ascii_lowercase(alpha[k])]
    IN {word \in {to_lowercase(w) : w \in blocklist} :
            /\ ByteLen(word) >= 3
            /\ \A k \in 1..Len(word) : word[k] \in Range(lowercase_alphabet)}

\* the length is checked before the bytes of the characters
new_length_first(opts) ==
    IF Len(opts.alphabet) < MIN_ALPHABET_LENGTH
    THEN [error |-> "AlphabetLength", sqids |-> NoInstance]
    ELSE IF \E k \in 1..Len(opts.alphabet) : len_utf8(opts.alphabet[k]) > 1
    THEN [error |-> "AlphabetMultibyteCharacters", sqids |-> NoInstance]
    ELSE IF Cardinality(Range(opts.alphabet)) # Len(opts.alphabet)
    THEN [error |-> "AlphabetUniqueCharacters", sqids |-> NoInstance]
    ELSE [error |-> "None",
          sqids |-> [alphabet |-> shuffle(opts.alphabet),
                     min_length |-> opts.min_length,
                     blocklist |-> filtered_blocklist(opts.blocklist, opts.alphabet)]]

new(opts) ==
    IF \E k \in 1..Len(opts.alphabet) : len_utf8(opts.alphabet[k]) > 1
    THEN [error |-> "AlphabetMultibyteCharacters", sqids |-> NoInstance]
    ELSE IF Len(opts.alphabet) < MIN_ALPHABET_LENGTH
    THEN [error |-> "AlphabetLength", sqids |-> NoInstance]
    ELSE IF Cardinality(Range(opts.alphabet)) # Len(opts.alphabet)
    THEN [error |-> "AlphabetUniqueCharacters", sqids |-> NoInstance]
    ELSE [error |-> "None",
          sqids |-> [alphabet |-> shuffle(opts.alphabet),
                     min_length |-> opts.min_length,
                     blocklist |-> filtered_blocklist(opts.blocklist, opts.alphabet)]]

(***************************************************************************)
(* Sqids::encode_numbers, up to the padding loop                           *)
(***************************************************************************)
\* the fold of line 178: starts at numbers.len(), adds alphabet[v % len] + i
RECURSIVE offset_fold(_, _, _, _)
offset_fold(alpha, nums, i, a) ==
    IF i >= Len(nums) THEN a
    ELSE offset_fold(alpha, nums, i + 1,
                     alpha[U64Rem(nums[i + 1], Len(alpha)) + 1] + i + a)

\* the offset of the first attempt, whatever the increment
encode_offset_ignores_increment(alpha, nums, inc) ==
    offset_fold(alpha, nums, 0, Len(nums)) % Len(alpha)

encode_offset(alpha, nums, inc) ==
    ((offset_fold(alpha, nums, 0, Len(nums)) % Len(alpha)) + inc) % Len(alpha)

\* the loop of lines 193-200 from number i on: the id so far and the alphabet
RECURSIVE encode_chunks(_, _, _, _)
encode_chunks(nums, i, alpha, acc) ==
    IF i >= Len(nums) THEN [id |-> acc, alphabet |-> alpha]
    ELSE LET acc2 == acc \o to_id(nums[i + 1], Tail(alpha))
         IN IF i < Len(nums) - 1
            THEN encode_chunks(nums, i + 1, shuffle(alpha), acc2 \o <<alpha[1]>>)
            ELSE encode_chunks(nums, i + 1, alpha, acc2)

\* the whole alphabet is appended, however little is missing
slice_len_whole_alphabet(min_length, s, alpha) == Len(alpha)

\* min(self.min_length as usize - id.len(), alphabet.len())
slice_len(min_length, s, alpha) == Min(min_length - ByteLen(s), Len(alpha))

(***************************************************************************)
(* The inputs.                                                             *)
(***************************************************************************)
Words(n) == [1..n -> {c \in CharPool : len_utf8(c) = 1}]

\* the ASCII words of three or four characters that start with 'a' or 'C', a
\* word that is too short and two words with a character no alphabet has
RetryBlocklist ==
    {w \in Words(3) \cup Words(4) : w[1] \in {97, 67}}
        \cup {<<97, 98>>, <<233, 97, 98>>, <<97, 98, 67, 233>>}

\* no word; every ASCII word of three characters; RetryBlocklist
Blocklists == { {}, Words(3), RetryBlocklist }

AllOptions ==
    [alphabet : SeqsUpTo(CharPool, MaxAlphabetLen),
     min_length : 0..MaxMinLength,
     blocklist : Blocklists]

\* every sequence of small numbers, and the sequences of u64::MAX
EncodeInputs ==
    SeqsUpTo({U64(n) : n \in 0..MaxNum}, MaxNumbers)
        \cup {[k \in 1..n |-> U64_MAX] : n \in 1..MaxNumbers}

DecodeInputs == SeqsUpTo(CharPool, MaxIdLen)

\* one character repeated: long enough, the digits of a number above u64::MAX
DecodeRuns == {[k \in 1..n |-> c] : n \in 1..MaxRunLen, c \in CharPool}

ShuffleInputs == SeqsUpTo(CharPool, MaxShuffleLen) \ {<<>>}

(***************************************************************************)
(* The program.                                                            *)
(***************************************************************************)
Init ==
    /\ pc = "start"
    /\ options \in AllOptions
    /\ sqids = NoInstance
    /\ error = "None"
    /\ numbers = <<>>
    /\ increment = 0
    /\ alphabet = <<>>
    /\ id = <<>>
    /\ attempts = <<>>
    /\ input = <<>>
    /\ rest = <<>>
    /\ ret = <<>>

\* Sqids::new(Some(options))
New ==
    /\ pc = "start"
    /\ LET r == new(options)
       IN /\ error' = r.error
          /\ sqids' = r.sqids
          /\ pc' = IF r.error = "None" THEN "ready" ELSE "failed"
    /\ UNCHANGED <<options, numbers, increment, alphabet, id, attempts, input, rest, ret>>

\* Sqids::encode(numbers)
Encode ==
    /\ pc = "ready"
    /\ \E nums \in EncodeInputs :
          /\ numbers' = nums
          /\ pc' = IF nums = <<>> THEN "encoded" ELSE "encode_numbers"
    /\ increment' = 0
    /\ id' = <<>>
    /\ error' = "None"
    /\ UNCHANGED <<options, sqids, alphabet, attempts, input, rest, ret>>

\* lines 178-202: the candidate id before padding, and the alphabet left
candidate(alpha, nums, inc) ==
    LET offset == encode_offset(alpha, nums, inc)
        rotated == Rotate(alpha, offset)
        prefix == rotated[1]
    IN encode_chunks(nums, 0, Reverse(rotated), <<prefix>>)

\* the entry check that counts one attempt too few
max_attempts_one_early(alpha, inc) == inc >= Len(alpha)

\* line 172: increment > self.alphabet.len()
max_attempts_reached(alpha, inc) == inc > Len(alpha)

\* encode_numbers(numbers, increment), lines 172-205: the entry check, the
\* candidate id, and the separator that starts the padding
EncodeNumbers ==
    /\ pc = "encode_numbers"
    /\ IF max_attempts_reached(sqids.alphabet, increment)
       THEN /\ error' = "BlocklistMaxAttempts"
            /\ pc' = "encoded"
            /\ UNCHANGED <<alphabet, id>>
       ELSE \E built \in {candidate(sqids.alphabet, numbers, increment)} :
            \E short \in {sqids.min_length > ByteLen(built.id)} :
               /\ alphabet' = built.alphabet
               /\ id' = IF short THEN built.id \o <<built.alphabet[1]>> ELSE built.id
               /\ pc' = IF short /\ sqids.min_length - (ByteLen(built.id) + 1) > 0
                        THEN "padding" ELSE "is_blocked"
               /\ UNCHANGED error
    /\ UNCHANGED <<options, sqids, numbers, increment, attempts, input, rest, ret>>

\* one iteration of the padding loop, lines 207-214, and the evaluation of the
\* loop condition that follows it (a usize subtraction)
PadStep ==
    /\ pc = "padding"
    /\ \E shuffled \in {shuffle(alphabet)} :
       \E padded \in {id \o Take(shuffled, slice_len(sqids.min_length, id, shuffled))} :
          /\ alphabet' = shuffled
          /\ id' = padded
          /\ pc' = IF ByteLen(padded) > sqids.min_length THEN "panic_subtract"
                   ELSE IF sqids.min_length - ByteLen(padded) > 0 THEN "padding"
                   ELSE "is_blocked"
    /\ UNCHANGED <<options, sqids, error, numbers, increment, attempts, input, rest, ret>>

\* the retry is made with the same increment
BlockCheckSameIncrement ==
    /\ pc = "is_blocked"
    /\ attempts' = Append(attempts, id)
    /\ pc' = IF is_blocked_id(sqids.blocklist, id) THEN "encode_numbers" ELSE "encoded"
    /\ UNCHANGED <<options, sqids, error, numbers, increment, alphabet, id, input, rest, ret>>

\* only the first candidate is checked: the id of the retry is returned as it is
BlockCheckOneRetry ==
    /\ pc = "is_blocked"
    /\ attempts' = Append(attempts, id)
    /\ IF increment = 0 /\ is_blocked_id(sqids.blocklist, id)
       THEN /\ increment' = increment + 1
            /\ pc' = "encode_numbers"
       ELSE /\ pc' = "encoded"
            /\ UNCHANGED increment
    /\ UNCHANGED <<options, sqids, error, numbers, alphabet, id, input, rest, ret>>

\* lines 217-221: the blocklist check and the retry
BlockCheck ==
    /\ pc = "is_blocked"
    /\ attempts' = Append(attempts, id)
    /\ IF is_blocked_id(sqids.blocklist, id)
       THEN /\ increment' = increment + 1
            /\ pc' = "encode_numbers"
       ELSE /\ pc' = "encoded"
            /\ UNCHANGED increment
    /\ UNCHANGED <<options, sqids, error, numbers, alphabet, id, input, rest, ret>>

\* only the prefix is looked up in the alphabet before the loop
decode_call_checks_prefix(s) ==
    /\ input' = s
    /\ ret' = <<>>
    /\ IF s = <<>> \/ s[1] \notin Range(sqids.alphabet)
       THEN /\ pc' = "decoded"
            /\ UNCHANGED <<alphabet, rest>>
       ELSE /\ alphabet' = Reverse(Rotate(sqids.alphabet, Position(sqids.alphabet, s[1])))
            /\ rest' = Tail(s)
            /\ pc' = IF Tail(s) = <<>> THEN "decoded" ELSE "decoding"
    /\ UNCHANGED <<options, sqids, error, numbers, increment, id, attempts>>

\* Sqids::decode(s), lines 126-144, and the first evaluation of the loop condition
decode_call(s) ==
    /\ input' = s
    /\ ret' = <<>>
    /\ IF s = <<>> \/ ~(\A k \in 1..Len(s) : s[k] \in Range(sqids.alphabet))
       THEN /\ pc' = "decoded"
            /\ UNCHANGED <<alphabet, rest>>
       ELSE LET prefix == s[1]
                offset == Position(sqids.alphabet, prefix)
            IN /\ alphabet' = Reverse(Rotate(sqids.alphabet, offset))
               /\ rest' = Tail(s)
               /\ pc' = IF Tail(s) = <<>> THEN "decoded" ELSE "decoding"
    /\ UNCHANGED <<options, sqids, error, numbers, increment, id, attempts>>

\* decode of any short string
Decode ==
    /\ pc = "ready"
    /\ \E s \in DecodeInputs : decode_call(s)

\* decode of a run of one character
DecodeRun ==
    /\ pc = "ready"
    /\ \E s \in DecodeRuns : decode_call(s)

\* decode of the id encode has just returned
DecodeEncoded ==
    /\ pc = "encoded"
    /\ error = "None"
    /\ decode_call(id)

\* one iteration of the chunk loop, lines 146-166.  Where to_number overflows
\* the u64, a build with overflow checks panics and one without goes on with
\* the wrapped value.
DecodeStep ==
    /\ pc = "decoding"
    /\ \E chunks \in {Split(rest, alphabet[1])} :
          IF chunks[1] = <<>>
          THEN /\ pc' = "decoded"
               /\ UNCHANGED <<alphabet, rest, ret>>
          ELSE \E n \in {to_number(chunks[1], Tail(alphabet))} :
               IF n.unwrap_none
               THEN /\ pc' = "panic_unwrap"
                    /\ UNCHANGED <<alphabet, rest, ret>>
               ELSE \/ /\ n.overflow
                       /\ pc' = "panic_overflow"
                       /\ UNCHANGED <<alphabet, rest, ret>>
                    \/ /\ ret' = Append(ret, n.value)
                       /\ alphabet' = IF Len(chunks) > 1 THEN shuffle(alphabet)
                                      ELSE alphabet
                       /\ rest' = Join(Tail(chunks), alphabet[1])
                       /\ pc' = IF rest' = <<>> THEN "decoded" ELSE "decoding"
    /\ UNCHANGED <<options, sqids, error, numbers, increment, id, attempts, input>>

\* Sqids::shuffle applied to `input` on its own
Shuffle ==
    /\ pc = "shuffle"
    /\ alphabet' = shuffle(input)
    /\ pc' = "shuffled"
    /\ UNCHANGED <<options, sqids, error, numbers, increment, id, attempts, input, rest, ret>>

(***************************************************************************)
(* The specifications.                                                     *)
(***************************************************************************)
Next ==
    \/ New
    \/ Encode
    \/ EncodeNumbers
    \/ PadStep
    \/ BlockCheck
    \/ Decode
    \/ DecodeEncoded
    \/ DecodeStep

\* the instances built with RetryBlocklist
InitCalls ==
    /\ Init
    /\ options.blocklist = RetryBlocklist

\* every operation, on these instances
SpecCalls == InitCalls /\ [][Next]_vars

\* construction alone
SpecNew == Init /\ [][New]_vars

\* construction, encode, and decode of what encode returned
NextEncode ==
    \/ New
    \/ Encode
    \/ EncodeNumbers
    \/ PadStep
    \/ BlockCheck
    \/ DecodeEncoded
    \/ DecodeStep

SpecEncode == Init /\ [][NextEncode]_vars

\* construction and decode of any string; decode reads neither min_length nor
\* the blocklist
InitDecode ==
    /\ Init
    /\ options.min_length = 0
    /\ options.blocklist = {}

NextDecode ==
    \/ New
    \/ Decode
    \/ DecodeRun
    \/ DecodeStep

SpecDecode == InitDecode /\ [][NextDecode]_vars

\* shuffle on any sequence of characters it can be handed
InitShuffle ==
    /\ pc = "shuffle"
    /\ input \in ShuffleInputs
    /\ options = [alphabet |-> <<>>, min_length |-> 0, blocklist |-> {}]
    /\ sqids = NoInstance
    /\ error = "None"
    /\ numbers = <<>>
    /\ increment = 0
    /\ alphabet = <<>>
    /\ id = <<>>
    /\ attempts = <<>>
    /\ rest = <<>>
    /\ ret = <<>>

SpecShuffle == InitShuffle /\ [][Shuffle]_vars

(***************************************************************************)
(* The properties.                                                         *)
(***************************************************************************)
\* the number of times c occurs in s
Count(s, c) == Cardinality({k \in 1..Len(s) : s[k] = c})

HasMultibyte(a) == \E k \in 1..Len(a) : len_utf8(a[k]) > 1

HasRepeat(a) == \E j, k \in 1..Len(a) : j < k /\ a[j] = a[k]

\* the Err that Sqids::new owes the alphabet a, "None" for a valid one
ExpectedNewError(a) ==
    IF HasMultibyte(a) THEN "AlphabetMultibyteCharacters"
    ELSE IF Len(a) < 3 THEN "AlphabetLength"
    ELSE IF HasRepeat(a) THEN "AlphabetUniqueCharacters"
    ELSE "None"

\* C6: Sqids::new returns AlphabetMultibyteCharacters if a character needs more
\* than one byte, otherwise AlphabetLength if the alphabet has fewer than 3
\* characters, otherwise AlphabetUniqueCharacters if a character repeats; it
\* returns Ok only when none of the three holds, and then the stored alphabet is
\* shuffle(candidate), free of repeats and at least 3 long.  No instance is
\* produced on a failure.
ConstructionValidation ==
    /\ pc = "start" => sqids = NoInstance
    /\ pc = "failed" =>
          /\ error # "None"
          /\ error = ExpectedNewError(options.alphabet)
          /\ sqids = NoInstance
    /\ pc = "ready" =>
          /\ error = "None"
          /\ ExpectedNewError(options.alphabet) = "None"
          /\ sqids.alphabet = shuffle(options.alphabet)
          /\ sqids.min_length = options.min_length
          /\ ~HasRepeat(sqids.alphabet)
          /\ Len(sqids.alphabet) >= 3

\* a multi-byte alphabet that is also too short and repeats a character is
\* rejected for its multi-byte character
ConstructionValidationWitness ==
    /\ pc = "failed"
    /\ error = "AlphabetMultibyteCharacters"
    /\ Len(options.alphabet) = 2
    /\ HasRepeat(options.alphabet)

\* C9: shuffle returns a sequence of the same length that holds every
\* character as often as its input does.
ShufflePermutes ==
    pc = "shuffled" =>
        /\ Len(alphabet) = Len(input)
        /\ \A c \in CharPool : Count(alphabet, c) = Count(input, c)

\* a shuffle that moves characters, on an input with a repeated character
ShufflePermutesWitness ==
    /\ pc = "shuffled"
    /\ Len(input) = 4
    /\ HasRepeat(input)
    /\ alphabet # input

\* decode has been called
DecodeCalled == pc \in {"decoding", "decoded", "panic_overflow", "panic_unwrap"}

\* encode has returned Ok for a non-empty input
EncodeReturnedOk ==
    /\ numbers # <<>>
    /\ error = "None"
    /\ pc \in {"encoded", "decoding", "decoded", "panic_overflow", "panic_unwrap"}

Foreign(s) == {k \in 1..Len(s) : s[k] \notin Range(sqids.alphabet)}

\* C5: decode of a string with a character that is not in the alphabet returns
\* the empty sequence, wherever the character is.
UnknownCharacterRejected ==
    (DecodeCalled /\ Foreign(input) # {}) => (pc = "decoded" /\ ret = <<>>)

\* the foreign character is the last one, behind a chunk that would decode
UnknownCharacterRejectedWitness ==
    /\ pc = "decoded"
    /\ Len(input) = 3
    /\ Foreign(input) = {3}
    /\ input[2] # Reverse(Rotate(sqids.alphabet, Position(sqids.alphabet, input[1])))[1]
    /\ ret = <<>>

\* C4: decode never fails: it never aborts, to_number's accumulation stays
\* within the u64 for every chunk decode hands it, and every lookup of a
\* character in the digit alphabet succeeds.
DecodeNeverFails ==
    /\ pc \notin {"panic_overflow", "panic_unwrap"}
    /\ pc = "decoding" =>
          LET chunk == Split(rest, alphabet[1])[1]
              n == to_number(chunk, Tail(alphabet))
          IN ~n.overflow /\ ~n.unwrap_none

\* the candidate of this attempt was shorter than min_length and got padded
Padded == ByteLen(id) > ByteLen(candidate(sqids.alphabet, numbers, increment).id)

\* C1: when encode returns Ok(id) for a non-empty sequence of numbers,
\* decode(id) returns that sequence.
RoundTrip ==
    (numbers # <<>> /\ pc \in {"decoded", "panic_overflow", "panic_unwrap"})
        => (pc = "decoded" /\ input = id /\ ret = numbers)

\* two different numbers in an id that took a retry and was padded
RoundTripWitness ==
    /\ pc = "decoded"
    /\ ret = numbers
    /\ Len(numbers) = 2
    /\ numbers[1] # numbers[2]
    /\ increment > 0
    /\ Padded

\* C2: an id that encode returns as Ok for a non-empty input is not flagged by
\* the blocklist filter of the instance.
ReturnedIdNotBlocked ==
    EncodeReturnedOk => ~is_blocked_id(sqids.blocklist, id)

\* an id returned after two flagged candidates
ReturnedIdNotBlockedWitness ==
    /\ pc = "encoded"
    /\ EncodeReturnedOk
    /\ increment = 2
    /\ Len(attempts) = 3
    /\ is_blocked_id(sqids.blocklist, attempts[2])

\* C3: an id that encode returns as Ok for a non-empty input is at least
\* min_length long, and the length subtraction of the padding loop never
\* underflows.
MinimumLength ==
    /\ pc # "panic_subtract"
    /\ EncodeReturnedOk => ByteLen(id) >= sqids.min_length

\* an id that the padding loop filled in more than one iteration
MinimumLengthWitness ==
    /\ pc = "encoded"
    /\ EncodeReturnedOk
    /\ ByteLen(id) = sqids.min_length
    /\ ByteLen(id) - ByteLen(candidate(sqids.alphabet, numbers, increment).id)
           > 1 + Len(sqids.alphabet)

\* C7: encode of a non-empty input fails with BlocklistMaxAttempts exactly when
\* the candidates of all the increments 0..alphabetLength are flagged; otherwise
\* it returns the candidate of the smallest increment that is not flagged.  It
\* returns no other error, and encode of the empty input returns Ok("") without
\* consulting the blocklist.
EncodeOutcome ==
    pc = "encoded" =>
        /\ error \in {"None", "BlocklistMaxAttempts"}
        /\ numbers = <<>> => (error = "None" /\ id = <<>> /\ attempts = <<>>)
        /\ numbers # <<>> =>
              /\ error = "BlocklistMaxAttempts" <=>
                    /\ Len(attempts) = Len(sqids.alphabet) + 1
                    /\ \A k \in 1..Len(attempts) :
                          is_blocked_id(sqids.blocklist, attempts[k])
              /\ error = "None" =>
                    /\ Len(attempts) = increment + 1
                    /\ increment <= Len(sqids.alphabet)
                    /\ id = attempts[increment + 1]
                    /\ ~is_blocked_id(sqids.blocklist, id)
                    /\ \A k \in 1..increment :
                          is_blocked_id(sqids.blocklist, attempts[k])

\* every increment was tried and every candidate flagged
EncodeOutcomeWitness ==
    /\ pc = "encoded"
    /\ error = "BlocklistMaxAttempts"
    /\ Len(attempts) = Len(sqids.alphabet) + 1

\* the prefix of the attempt with increment k is
\* canonicalAlphabet[(baseOffset + k) mod alphabetLength]
PrefixOfAttempt(k) ==
    sqids.alphabet[((encode_offset(sqids.alphabet, numbers, 0) + k)
                        % Len(sqids.alphabet)) + 1]

PrefixesFollowOffset ==
    \A k \in 1..Len(attempts) : attempts[k][1] = PrefixOfAttempt(k - 1)

\* C10 as stated: the candidates of any two different increments that one
\* encode call tries start with different characters.
RetryPrefixesDiffer ==
    /\ PrefixesFollowOffset
    /\ \A j, k \in 1..Len(attempts) : j # k => attempts[j][1] # attempts[k][1]

\* C10 as amended: the candidates of two increments start with the same
\* character exactly when the increments differ by a multiple of the alphabet
\* length, that is for the increments 0 and alphabetLength, whose candidates are
\* the same id.
RetryPrefixesDifferModLength ==
    /\ PrefixesFollowOffset
    /\ \A j, k \in 1..Len(attempts) :
          /\ attempts[j][1] = attempts[k][1] <=> (k - j) % Len(sqids.alphabet) = 0
          /\ (k - j) % Len(sqids.alphabet) = 0 => attempts[j] = attempts[k]

\* a call that tried the increment alphabetLength
RetryPrefixesDifferModLengthWitness ==
    /\ numbers # <<>>
    /\ Len(attempts) = Len(sqids.alphabet) + 1
    /\ attempts[Len(attempts)][1] = attempts[1][1]
    /\ attempts[2][1] # attempts[1][1]

\* the program is inside a call of encode or decode
InCall == pc \in {"encode_numbers", "padding", "is_blocked", "decoding"}

\* what one attempt of encode_numbers can take: the entry, the iterations of
\* the padding loop and the blocklist check
AttemptSteps == sqids.min_length + 3

\* a bound on the steps the call in progress has left
Rank ==
    LET later == (Len(sqids.alphabet) + 1 - increment) * AttemptSteps
    IN CASE pc = "encode_numbers" -> later + sqids.min_length + 2
         [] pc = "padding" -> later + 1 + (sqids.min_length - ByteLen(id))
         [] pc = "is_blocked" -> later
         [] pc = "decoding" -> Len(rest)
         [] OTHER -> 0

\* C8: every encode call and every decode call terminates: the retry recursion
\* is at most alphabetLength + 2 calls deep, every iteration of the padding
\* loop reduces the missing length, every iteration of decode's chunk loop
\* shortens the remainder, and every step of a call takes it closer to its
\* return: Rank, a natural number, decreases.
Termination ==
    /\ [](pc = "encode_numbers" => increment + 1 <= Len(sqids.alphabet) + 2)
    /\ [](InCall => Rank >= 0)
    /\ [][pc = "padding" =>
            (sqids.min_length - ByteLen(id') < sqids.min_length - ByteLen(id)
                /\ sqids.min_length - ByteLen(id') >= 0)]_vars
    /\ [][(pc = "decoding" /\ pc' = "decoding") => Len(rest') < Len(rest)]_vars
    /\ [][InCall => Rank' < Rank]_vars

\* the deepest retry recursion, of a call that padded its candidates
TerminationWitness ==
    /\ pc = "encode_numbers"
    /\ increment = Len(sqids.alphabet) + 1
    /\ sqids.min_length = MaxMinLength
    /\ ByteLen(id) = sqids.min_length

====
